---- MODULE Spec2Model ----
(***************************************************************************)
(* Model of the CESIS E-Ink signage server: the in-memory event cache      *)
(* (loadEventsCache), the weekly ingestion job (parseICal) and the         *)
(* POST /data handler with its single-pass current/next event selection.   *)
(***************************************************************************)
EXTENDS Integers, Sequences, FiniteSets, TLC

(* ------------------------------ bounds -------------------------------- *)
\* instants per calendar day; the instants are 0..DayLen, so that day 0 is
\* 0..DayLen-1 and the last instant falls on day 1
DayLen == 3
\* longest event sequence a store holds in the selection specification
MaxEvents == 2
\* file modification times are 1..MaxMTime
MaxMTime == 2
\* number of request slots (requests in flight at once)
MaxRequests == 2
\* longest event, in instants, among the well-formed events
MaxDuration == 1

Times == 0..DayLen
MTimes == 1..MaxMTime
Slots == 1..MaxRequests
Rooms == {"2.05", "1.01"}
\* the room and the instant of the requests in the cache specification
\* (the selection specification takes every room and every instant)
RequestRooms == {"2.05"}
RequestTimes == {0}

(* --------------------------- JS null / values -------------------------- *)
\* a nullable JS value is the empty tuple (null) or a one-element tuple
Null == <<>>
Some(v) == <<v>>
Val(o) == o[1]

Has(event, field) == field \in DOMAIN event

\* Array.prototype.includes on the location list
Includes(location, room) == \E k \in 1..Len(location) : location[k] = room

\* calendar date (year, month, day) of an instant
DateOf(t) == t \div DayLen

ToISOString(t) == [iso |-> t]

(* ------------------------------ events --------------------------------- *)
Locations == {<<"2.05">>, <<"2.05", "1.01">>}

\* events as the normalisation step may emit them: well-formed ones, and
\* ones where a field the selection reads is absent or the location is empty
FullEvents ==
    {e \in [startTime : Times, endTime : Times, location : Locations] :
        e.endTime - e.startTime \in 0..MaxDuration}
NoStartEvents == [endTime : {DayLen}, location : {<<"2.05", "1.01">>}]
NoEndEvents == [startTime : {1}, location : {<<"2.05", "1.01">>}]
NoLocationEvents == [startTime : {0}, endTime : {1}]
NoRoomEvents == [startTime : {0}, endTime : {1}, location : {<<>>}]
\* events that carry the title the prompt asks for, or only a summary
TitledEvents ==
    {[title |-> "Anatomia", startTime |-> 1, endTime |-> 2, location |-> <<"2.05">>],
     [summary |-> "Cod. 100200", startTime |-> 2, endTime |-> 2, location |-> <<"2.05">>]}
Events ==
    FullEvents \cup NoStartEvents \cup NoEndEvents \cup NoLocationEvents
               \cup NoRoomEvents \cup TitledEvents

RECURSIVE SeqsUpTo(_, _)
SeqsUpTo(S, n) ==
    IF n = 0 THEN {<<>>}
    ELSE LET shorter == SeqsUpTo(S, n - 1)
         IN shorter \cup {Append(s, x) : s \in {t \in shorter : Len(t) = n - 1}, x \in S}

EventSeqs == SeqsUpTo(Events, MaxEvents)

(* ------------------------- selection (POST /data) ---------------------- *)
Eligible(event) ==
    Has(event, "startTime") /\ Has(event, "endTime") /\ Has(event, "location")

\* mutation: the calendar-date test is dropped
SameDate_AnyDay(event, now) == TRUE

SameDate(event, now) == DateOf(event.startTime) = DateOf(now)

IsCurrent(event, now) == now >= event.startTime /\ now <= event.endTime

\* mutation: every future event replaces the candidate (the last one wins)
ReplacesNext_Latest(event, nextEvent, now) == event.startTime > now

\* mutation: the candidate need not start after now
ReplacesNext_AnyTime(event, nextEvent, now) ==
    nextEvent = Null \/ event.startTime < Val(nextEvent).startTime

ReplacesNext(event, nextEvent, now) ==
    /\ event.startTime > now
    /\ (nextEvent = Null \/ event.startTime < Val(nextEvent).startTime)

\* mutation: an event without startTime, endTime or location ends the scan
\* (break in place of continue)
RECURSIVE SelectLoop_StopsAtMalformed(_, _, _, _, _)
SelectLoop_StopsAtMalformed(allEvents, k, room, now, nextEvent) ==
    IF k > Len(allEvents)
    THEN [currentEvent |-> Null, nextEvent |-> nextEvent]
    ELSE LET event == allEvents[k] IN
         IF ~Eligible(event) THEN [currentEvent |-> Null, nextEvent |-> nextEvent]
         ELSE IF ~Includes(event.location, room)
              THEN SelectLoop_StopsAtMalformed(allEvents, k + 1, room, now, nextEvent)
         ELSE IF ~SameDate(event, now)
              THEN SelectLoop_StopsAtMalformed(allEvents, k + 1, room, now, nextEvent)
         ELSE IF IsCurrent(event, now)
              THEN [currentEvent |-> Some(event), nextEvent |-> nextEvent]
         ELSE IF ReplacesNext(event, nextEvent, now)
              THEN SelectLoop_StopsAtMalformed(allEvents, k + 1, room, now, Some(event))
         ELSE SelectLoop_StopsAtMalformed(allEvents, k + 1, room, now, nextEvent)

RECURSIVE SelectLoop(_, _, _, _, _)
SelectLoop(allEvents, k, room, now, nextEvent) ==
    IF k > Len(allEvents)
    THEN [currentEvent |-> Null, nextEvent |-> nextEvent]
    ELSE LET event == allEvents[k] IN
         IF ~Eligible(event) THEN SelectLoop(allEvents, k + 1, room, now, nextEvent)
         ELSE IF ~Includes(event.location, room)
              THEN SelectLoop(allEvents, k + 1, room, now, nextEvent)
         ELSE IF ~SameDate(event, now)
              THEN SelectLoop(allEvents, k + 1, room, now, nextEvent)
         ELSE IF IsCurrent(event, now)
              THEN [currentEvent |-> Some(event), nextEvent |-> nextEvent]
         ELSE IF ReplacesNext(event, nextEvent, now)
              THEN SelectLoop(allEvents, k + 1, room, now, Some(event))
         ELSE SelectLoop(allEvents, k + 1, room, now, nextEvent)

SelectEvents(allEvents, room, now) == SelectLoop(allEvents, 1, room, now, Null)

(* ---------------------- text, JSON.parse, JSON.stringify --------------- *)
\* a text is a JSON document, a JSON document inside a markdown code fence,
\* or something that is no JSON at all
Garbage == [kind |-> "garbage"]
JSONStringify(value) == [kind |-> "json", value |-> value]
Fence(text) == [kind |-> "fenced", inner |-> text]

StripFences(text) == IF text.kind = "fenced" THEN text.inner ELSE text

JSONParse(text) ==
    IF text.kind = "json" THEN [ok |-> TRUE, value |-> text.value]
    ELSE [ok |-> FALSE]

(* ------------------------------ store file ----------------------------- *)
NoFile == [exists |-> FALSE]
StoreFile(content, mtime) == [exists |-> TRUE, content |-> content, mtime |-> mtime]

\* the uncached handler's read of the store: existsSync, readFileSync,
\* JSON.parse on every request
DirectRead(f) ==
    IF ~f.exists THEN [found |-> FALSE, ok |-> FALSE]
    ELSE LET parsed == JSONParse(f.content) IN
         IF parsed.ok THEN [found |-> TRUE, ok |-> TRUE, value |-> parsed.value]
         ELSE [found |-> TRUE, ok |-> FALSE]

Lecture == [startTime |-> 0, endTime |-> 1, location |-> <<"2.05">>]
Seminar == [startTime |-> 1, endTime |-> 2, location |-> <<"2.05", "1.01">>]

\* event arrays the language model returns in the cache specification
StoreVersions == {<<>>, <<Lecture>>, <<Seminar>>}

\* JSON values the language model's answer may parse to: an array or null
ModelValues == {Null} \cup {Some(s) : s \in StoreVersions}

\* what response.text() may be
ModelTexts ==
    {Garbage} \cup {JSONStringify(v) : v \in ModelValues}
              \cup {Fence(JSONStringify(v)) : v \in ModelValues}

\* what the store file may hold when the server starts
InitialFiles ==
    {NoFile} \cup {StoreFile(Garbage, m) : m \in MTimes}
             \cup {StoreFile(JSONStringify(Some(s)), m) : s \in StoreVersions, m \in MTimes}

VARIABLES
    file,            \* json/structured_events.json
    eventsCache,     \* let eventsCache
    cacheTimestamp,  \* let cacheTimestamp
    job,             \* the parseICal run in progress, if any
    req              \* the POST /data requests in flight

vars == <<file, eventsCache, cacheTimestamp, job, req>>

(* ---------------------------- loadEventsCache -------------------------- *)
\* mutation: a file as old as the timestamp is reloaded too
NeedsReload_NotOlder(f, ec, ct) ==
    ec = Null \/ ct = Null \/ f.mtime >= Val(ct)

\* mutation: a cleared timestamp no longer forces the reload
NeedsReload_IgnoresInvalidation(f, ec, ct) ==
    ec = Null \/ (ct # Null /\ f.mtime > Val(ct))

NeedsReload(f, ec, ct) ==
    ec = Null \/ ct = Null \/ f.mtime > Val(ct)

\* mutation: the timestamp is recorded before the file is parsed
LoadEventsCache_TimestampFirst(f, ec, ct) ==
    IF ~f.exists
    THEN [eventsCache |-> Null, cacheTimestamp |-> Null, ret |-> Null,
          threw |-> FALSE, read |-> FALSE]
    ELSE IF NeedsReload(f, ec, ct)
         THEN LET parsed == JSONParse(f.content) IN
              IF ~parsed.ok
              THEN [eventsCache |-> ec, cacheTimestamp |-> Some(f.mtime), ret |-> Null,
                    threw |-> TRUE, read |-> TRUE]
              ELSE IF parsed.value = Null
              THEN [eventsCache |-> Null, cacheTimestamp |-> Some(f.mtime),
                    ret |-> Null, threw |-> TRUE, read |-> TRUE]
              ELSE [eventsCache |-> parsed.value, cacheTimestamp |-> Some(f.mtime),
                    ret |-> parsed.value, threw |-> FALSE, read |-> TRUE]
         ELSE [eventsCache |-> ec, cacheTimestamp |-> ct, ret |-> ec,
               threw |-> FALSE, read |-> FALSE]

\* mutation: a missing file leaves the cache alone and the snapshot is served
LoadEventsCache_ServesWithoutFile(f, ec, ct) ==
    IF ~f.exists
    THEN [eventsCache |-> ec, cacheTimestamp |-> ct, ret |-> ec,
          threw |-> FALSE, read |-> FALSE]
    ELSE IF NeedsReload(f, ec, ct)
         THEN LET parsed == JSONParse(f.content) IN
              IF ~parsed.ok
              THEN [eventsCache |-> ec, cacheTimestamp |-> ct, ret |-> Null,
                    threw |-> TRUE, read |-> TRUE]
              ELSE IF parsed.value = Null
              THEN [eventsCache |-> Null, cacheTimestamp |-> Some(f.mtime),
                    ret |-> Null, threw |-> TRUE, read |-> TRUE]
              ELSE [eventsCache |-> parsed.value, cacheTimestamp |-> Some(f.mtime),
                    ret |-> parsed.value, threw |-> FALSE, read |-> TRUE]
         ELSE [eventsCache |-> ec, cacheTimestamp |-> ct, ret |-> ec,
               threw |-> FALSE, read |-> FALSE]

\* mutation: the reloaded events are added to the snapshot in place
LoadEventsCache_Appends(f, ec, ct) ==
    IF ~f.exists
    THEN [eventsCache |-> Null, cacheTimestamp |-> Null, ret |-> Null,
          threw |-> FALSE, read |-> FALSE]
    ELSE IF NeedsReload(f, ec, ct)
         THEN LET parsed == JSONParse(f.content) IN
              IF ~parsed.ok
              THEN [eventsCache |-> ec, cacheTimestamp |-> ct, ret |-> Null,
                    threw |-> TRUE, read |-> TRUE]
              ELSE IF parsed.value = Null
              THEN [eventsCache |-> Null, cacheTimestamp |-> Some(f.mtime),
                    ret |-> Null, threw |-> TRUE, read |-> TRUE]
              ELSE LET merged == IF ec = Null THEN parsed.value
                                 ELSE Some(Val(ec) \o Val(parsed.value))
                   IN [eventsCache |-> merged, cacheTimestamp |-> Some(f.mtime),
                       ret |-> merged, threw |-> FALSE, read |-> TRUE]
         ELSE [eventsCache |-> ec, cacheTimestamp |-> ct, ret |-> ec,
               threw |-> FALSE, read |-> FALSE]

\* mutation: the reload does not record the file's modification time
LoadEventsCache_NoTimestamp(f, ec, ct) ==
    IF ~f.exists
    THEN [eventsCache |-> Null, cacheTimestamp |-> Null, ret |-> Null,
          threw |-> FALSE, read |-> FALSE]
    ELSE IF NeedsReload(f, ec, ct)
         THEN LET parsed == JSONParse(f.content) IN
              IF ~parsed.ok
              THEN [eventsCache |-> ec, cacheTimestamp |-> ct, ret |-> Null,
                    threw |-> TRUE, read |-> TRUE]
              ELSE IF parsed.value = Null
              THEN [eventsCache |-> Null, cacheTimestamp |-> ct,
                    ret |-> Null, threw |-> TRUE, read |-> TRUE]
              ELSE [eventsCache |-> parsed.value, cacheTimestamp |-> ct,
                    ret |-> parsed.value, threw |-> FALSE, read |-> TRUE]
         ELSE [eventsCache |-> ec, cacheTimestamp |-> ct, ret |-> ec,
               threw |-> FALSE, read |-> FALSE]

\* the outcome of one call: the new cache state, the returned value, whether
\* the file was read, and whether the call threw: JSON.parse on a file that
\* does not parse, or eventsCache.length in the log line when the file holds
\* null (after both assignments)
LoadEventsCache(f, ec, ct) ==
    IF ~f.exists
    THEN [eventsCache |-> Null, cacheTimestamp |-> Null, ret |-> Null,
          threw |-> FALSE, read |-> FALSE]
    ELSE IF NeedsReload(f, ec, ct)
         THEN LET parsed == JSONParse(f.content) IN
              IF ~parsed.ok
              THEN [eventsCache |-> ec, cacheTimestamp |-> ct, ret |-> Null,
                    threw |-> TRUE, read |-> TRUE]
              ELSE IF parsed.value = Null
              THEN [eventsCache |-> Null, cacheTimestamp |-> Some(f.mtime),
                    ret |-> Null, threw |-> TRUE, read |-> TRUE]
              ELSE [eventsCache |-> parsed.value, cacheTimestamp |-> Some(f.mtime),
                    ret |-> parsed.value, threw |-> FALSE, read |-> TRUE]
         ELSE [eventsCache |-> ec, cacheTimestamp |-> ct, ret |-> ec,
               threw |-> FALSE, read |-> FALSE]

(* ------------------------------ responses ------------------------------ *)
ErrorResponse(message) == [status |-> 500, error |-> message]

EventTitle(event) ==
    IF Has(event, "title") THEN event.title
    ELSE IF Has(event, "summary") THEN event.summary
    ELSE "No Title"

\* mutation: the message is composed whether or not a current event was found
NextEventMessage_Always(currentEvent, nextEvent) ==
    IF nextEvent # Null
    THEN Some([text |-> "Next event", title |-> EventTitle(Val(nextEvent)),
               startsAt |-> ToISOString(Val(nextEvent).startTime)])
    ELSE Some([text |-> "No upcoming events for this room"])

NextEventMessage(currentEvent, nextEvent) ==
    IF currentEvent # Null THEN Null
    ELSE IF nextEvent # Null
         THEN Some([text |-> "Next event", title |-> EventTitle(Val(nextEvent)),
                    startsAt |-> ToISOString(Val(nextEvent).startTime)])
         ELSE Some([text |-> "No upcoming events for this room"])

\* the picture: the event card, or the free-room card with the next event
GenerateEventImage(event, roomCode, nextEvent) ==
    IF event = Null
    THEN [card |-> "Sala Lliure", room |-> roomCode, next |-> nextEvent]
    ELSE [card |-> "event", event |-> Val(event)]

DataResponse(r, image) ==
    [status |-> 200,
     room |-> r.room,
     currentTime |-> ToISOString(r.timeNow),
     event |-> r.currentEvent,
     nextEvent |-> r.nextEvent,
     nextEventMessage |-> NextEventMessage(r.currentEvent, r.nextEvent),
     imageBase64 |-> image]

Idle == [pc |-> "idle"]
Done(responses) == [pc |-> "done", sent |-> responses]

(* ----------------------------- POST /data ------------------------------ *)
\* mutation: the missing-store branch sends its 500 without returning; the
\* loop over null then throws and the catch block sends a second body
PostData_NoReturn(i, room, now) ==
    /\ req[i].pc = "idle"
    /\ LET ld == LoadEventsCache(file, eventsCache, cacheTimestamp) IN
       /\ eventsCache' = ld.eventsCache
       /\ cacheTimestamp' = ld.cacheTimestamp
       /\ IF ld.threw
          THEN req' = [req EXCEPT ![i] =
                          Done(<<ErrorResponse("Internal server error")>>)]
          ELSE IF ld.ret = Null
          THEN req' = [req EXCEPT ![i] =
                          Done(<<ErrorResponse("Structured events data not found"),
                                 ErrorResponse("Internal server error")>>)]
          ELSE LET sel == SelectEvents(Val(ld.ret), room, now) IN
               req' = [req EXCEPT ![i] =
                          [pc |-> "render", room |-> room, timeNow |-> now,
                           allEvents |-> ld.ret, read |-> ld.read,
                           currentEvent |-> sel.currentEvent,
                           nextEvent |-> sel.nextEvent]]
    /\ UNCHANGED <<file, job>>

\* the handler up to its first suspension (await generateEventImage);
\* read: whether its loadEventsCache call read the store file
PostData(i, room, now) ==
    /\ req[i].pc = "idle"
    /\ LET ld == LoadEventsCache(file, eventsCache, cacheTimestamp) IN
       /\ eventsCache' = ld.eventsCache
       /\ cacheTimestamp' = ld.cacheTimestamp
       /\ IF ld.threw
          THEN req' = [req EXCEPT ![i] =
                          Done(<<ErrorResponse("Internal server error")>>)]
          ELSE IF ld.ret = Null
          THEN req' = [req EXCEPT ![i] =
                          Done(<<ErrorResponse("Structured events data not found")>>)]
          ELSE LET sel == SelectEvents(Val(ld.ret), room, now) IN
               req' = [req EXCEPT ![i] =
                          [pc |-> "render", room |-> room, timeNow |-> now,
                           allEvents |-> ld.ret, read |-> ld.read,
                           currentEvent |-> sel.currentEvent,
                           nextEvent |-> sel.nextEvent]]
    /\ UNCHANGED <<file, job>>

\* mutation: after the rendering the handler selects again, from the cache
\* as it is then
RenderDone_Reselect(i) ==
    /\ req[i].pc = "render"
    /\ LET r == req[i]
           snapshot == IF eventsCache # Null THEN eventsCache ELSE r.allEvents
           sel == SelectEvents(Val(snapshot), r.room, r.timeNow)
           late == [r EXCEPT !.currentEvent = sel.currentEvent,
                             !.nextEvent = sel.nextEvent]
           image == GenerateEventImage(r.currentEvent, r.room, r.nextEvent)
       IN req' = [req EXCEPT ![i] = Done(<<DataResponse(late, image)>>)]
    /\ UNCHANGED <<file, eventsCache, cacheTimestamp, job>>

\* the renderer returns the screenshot; the handler sends the 200 body
RenderDone(i) ==
    /\ req[i].pc = "render"
    /\ LET r == req[i]
           image == GenerateEventImage(r.currentEvent, r.room, r.nextEvent)
       IN req' = [req EXCEPT ![i] = Done(<<DataResponse(r, image)>>)]
    /\ UNCHANGED <<file, eventsCache, cacheTimestamp, job>>

\* the renderer throws; the catch block sends the 500 body
RenderFail(i) ==
    /\ req[i].pc = "render"
    /\ req' = [req EXCEPT ![i] =
                   Done(<<ErrorResponse("Internal server error")>>)]
    /\ UNCHANGED <<file, eventsCache, cacheTimestamp, job>>

\* the response has gone out; the server takes the next request
NextRequest(i) ==
    /\ req[i].pc = "done"
    /\ req' = [req EXCEPT ![i] = Idle]
    /\ UNCHANGED <<file, eventsCache, cacheTimestamp, job>>

(* ------------------------------ parseICal ------------------------------ *)
JobIdle(outcome) == [pc |-> "idle", outcome |-> outcome]

\* startup or the weekly cron tick calls parseICal, which awaits the feed
StartParseICal ==
    /\ job.pc = "idle"
    /\ job' = [pc |-> "fetching"]
    /\ UNCHANGED <<file, eventsCache, cacheTimestamp, req>>

\* the feed arrives; the prompt is sent and the job awaits the model
FeedFetched ==
    /\ job.pc = "fetching"
    /\ job' = [pc |-> "generating"]
    /\ UNCHANGED <<file, eventsCache, cacheTimestamp, req>>

\* ical.async.fromURL rejects; the .catch handler logs it
FeedFailed ==
    /\ job.pc = "fetching"
    /\ job' = JobIdle("failed")
    /\ UNCHANGED <<file, eventsCache, cacheTimestamp, req>>

\* model.generateContent rejects; the .catch handler logs it
ModelFailed ==
    /\ job.pc = "generating"
    /\ job' = JobIdle("failed")
    /\ UNCHANGED <<file, eventsCache, cacheTimestamp, req>>

\* the rest of parseICal after the model's answer: strip the fences, parse,
\* write the store file and invalidate the cache
\* mutation: the store file is written but the cache is not invalidated
FinishParseICal_NoInvalidate(f, ct, text, mtime) ==
    LET parsedData == JSONParse(StripFences(text)) IN
    IF parsedData.ok
    THEN [file |-> StoreFile(JSONStringify(parsedData.value), mtime),
          cacheTimestamp |-> ct, outcome |-> "saved"]
    ELSE [file |-> f, cacheTimestamp |-> ct, outcome |-> "failed"]

\* mutation: the cache is invalidated before the model's answer is parsed
FinishParseICal_InvalidateFirst(f, ct, text, mtime) ==
    LET parsedData == JSONParse(StripFences(text)) IN
    IF parsedData.ok
    THEN [file |-> StoreFile(JSONStringify(parsedData.value), mtime),
          cacheTimestamp |-> Null, outcome |-> "saved"]
    ELSE [file |-> f, cacheTimestamp |-> Null, outcome |-> "failed"]

FinishParseICal(f, ct, text, mtime) ==
    LET parsedData == JSONParse(StripFences(text)) IN
    IF parsedData.ok
    THEN [file |-> StoreFile(JSONStringify(parsedData.value), mtime),
          cacheTimestamp |-> Null, outcome |-> "saved"]
    ELSE [file |-> f, cacheTimestamp |-> ct, outcome |-> "failed"]

ModelAnswered(text, mtime) ==
    /\ job.pc = "generating"
    /\ LET fin == FinishParseICal(file, cacheTimestamp, text, mtime) IN
       /\ file' = fin.file
       /\ cacheTimestamp' = fin.cacheTimestamp
       /\ job' = JobIdle(fin.outcome)
    /\ UNCHANGED <<eventsCache, req>>

\* the outcome the job logs: the console.log after the write, or the
\* console.error of the .catch handler
JobOutcomes == {"none", "saved", "failed"}

\* the store file is deleted from outside the server
RemoveFile ==
    /\ file.exists
    /\ file' = NoFile
    /\ UNCHANGED <<eventsCache, cacheTimestamp, job, req>>

(* ------------------- the uncached handler (index.js) ------------------- *)
\* the test of allEvents.filter: a missing startTime or endTime makes an
\* Invalid Date, and every comparison with it is false
FilterTest(event, room, now) ==
    /\ Has(event, "location") /\ Includes(event.location, room)
    /\ Has(event, "startTime") /\ now >= event.startTime
    /\ Has(event, "endTime") /\ now <= event.endTime

FilterEvents(allEvents, room, now) ==
    SelectSeq(allEvents, LAMBDA event : FilterTest(event, room, now))

\* the picture of the uncached version: no next event on the free-room card
GenerateEventImageV1(event, roomCode) ==
    IF event = Null
    THEN [card |-> "Sala Lliure", room |-> roomCode]
    ELSE [card |-> "event", event |-> Val(event)]

\* the 200 body: filteredEvent[0] of an empty array is undefined, and
\* res.json leaves a field whose value is undefined out of the body
IndexDataResponse(allEvents, room, now) ==
    LET filtered == FilterEvents(allEvents, room, now)
        filteredEvent == IF Len(filtered) = 0 THEN Null ELSE Some(filtered[1])
    IN IF filteredEvent = Null
       THEN [status |-> 200,
             room |-> room,
             currentTime |-> ToISOString(now),
             imageBase64 |-> GenerateEventImageV1(filteredEvent, room)]
       ELSE [status |-> 200,
             room |-> room,
             currentTime |-> ToISOString(now),
             event |-> filteredEvent,
             imageBase64 |-> GenerateEventImageV1(filteredEvent, room)]

\* the whole uncached handler on a store file, the rendering succeeding
IndexPostData(f, room, now) ==
    LET direct == DirectRead(f) IN
    IF ~direct.found THEN ErrorResponse("Structured events data not found")
    ELSE IF ~direct.ok \/ direct.value = Null
         THEN ErrorResponse("Internal server error")
    ELSE IndexDataResponse(Val(direct.value), room, now)

(* ---------------------------- specifications --------------------------- *)
Init ==
    /\ file \in InitialFiles
    /\ eventsCache = Null
    /\ cacheTimestamp = Null
    /\ job = JobIdle("none")
    /\ req = [i \in Slots |-> Idle]

Next ==
    \/ \E i \in Slots, room \in RequestRooms, now \in RequestTimes : PostData(i, room, now)
    \/ \E i \in Slots : RenderDone(i)
    \/ \E i \in Slots : RenderFail(i)
    \/ \E i \in Slots : NextRequest(i)
    \/ StartParseICal
    \/ FeedFetched
    \/ FeedFailed
    \/ ModelFailed
    \/ \E text \in ModelTexts, mtime \in MTimes : ModelAnswered(text, mtime)
    \/ RemoveFile

Spec == Init /\ [][Next]_vars

\* the store file is damaged from outside the server (a truncated or
\* hand-edited file): its content no longer parses
CorruptFile(mtime) ==
    /\ file.exists
    /\ file' = StoreFile(Garbage, mtime)
    /\ UNCHANGED <<eventsCache, cacheTimestamp, job, req>>

TamperNext ==
    \/ Next
    \/ \E mtime \in MTimes : CorruptFile(mtime)

\* the cache specification with a store file that can also be damaged
TamperSpec == Init /\ [][TamperNext]_vars

\* the store file is replaced from outside the server (a hand-edited or
\* restored file) by another event array; nothing invalidates the cache
ReplaceFile(events, mtime) ==
    /\ file.exists
    /\ file' = StoreFile(JSONStringify(Some(events)), mtime)
    /\ UNCHANGED <<eventsCache, cacheTimestamp, job, req>>

EditNext ==
    \/ \E room \in RequestRooms, now \in RequestTimes : PostData(1, room, now)
    \/ RenderDone(1)
    \/ RenderFail(1)
    \/ NextRequest(1)
    \/ StartParseICal
    \/ FeedFetched
    \/ FeedFailed
    \/ ModelFailed
    \/ \E text \in ModelTexts, mtime \in MTimes : ModelAnswered(text, mtime)
    \/ RemoveFile
    \/ \E events \in StoreVersions, mtime \in MTimes : ReplaceFile(events, mtime)

\* one request at a time against a store file that the job writes and that
\* can also be replaced
EditSpec == Init /\ [][EditNext]_vars

\* the selection on its own: one request against every store content
SelectInit ==
    /\ file \in {StoreFile(JSONStringify(Some(s)), 1) : s \in EventSeqs}
    /\ eventsCache = Null
    /\ cacheTimestamp = Null
    /\ job = JobIdle("none")
    /\ req = [i \in Slots |-> Idle]

SelectNext ==
    \/ \E room \in Rooms, now \in Times : PostData(1, room, now)
    \/ RenderDone(1)
    \/ RenderFail(1)

SelectSpec == SelectInit /\ [][SelectNext]_vars

(* ======================================================================= *)
(*                         properties of the selection                     *)
(* ======================================================================= *)
\* the event array in the store file (selection specification)
Stored == Val(file.content.value)

\* slot i has sent its response / has sent the 200 body
Responded(i) == req[i].pc = "done"
Response(i) == req[i].sent[1]
Answered(i) == Responded(i) /\ Response(i).status = 200

Least(S) == CHOOSE x \in S : \A y \in S : x <= y

WellFormed(e) == {"startTime", "endTime", "location"} \subseteq DOMAIN e
InRoom(e, room) == \E k \in DOMAIN e.location : e.location[k] = room
OnDayOf(t, now) == t \div DayLen = now \div DayLen
ActiveAt(e, room, now) ==
    WellFormed(e) /\ InRoom(e, room) /\ e.startTime <= now /\ now <= e.endTime

ActiveIn(store, room, now) ==
    {k \in DOMAIN store : ActiveAt(store[k], room, now)}
FutureTodayIn(store, room, now) ==
    {k \in DOMAIN store :
        /\ WellFormed(store[k]) /\ InRoom(store[k], room)
        /\ OnDayOf(store[k].startTime, now) /\ store[k].startTime > now}
NoEventToday(store, room, now) ==
    \A k \in DOMAIN store :
        ~(/\ {"startTime", "location"} \subseteq DOMAIN store[k]
          /\ InRoom(store[k], room)
          /\ OnDayOf(store[k].startTime, now))

\* C1: whenever some event of the store has the room in its
\* location and startTime <= now <= endTime, the response's `event` is the
\* first such event in iteration order.
C1_ActiveEventIsCurrent ==
    Answered(1) =>
        LET res == Response(1)
            active == ActiveIn(Stored, res.room, res.currentTime.iso)
        IN active # {} => res.event = Some(Stored[Least(active)])

\* C2: when no event for the room is active at now and some event for the
\* room (an event with startTime, endTime and location) starts later on now's
\* calendar day, the response's `nextEvent` is one of those events and none
\* of them starts earlier, whatever the order of the store.
C2_NextIsEarliestToday ==
    Answered(1) =>
        LET res == Response(1)
            now == res.currentTime.iso
            future == FutureTodayIn(Stored, res.room, now)
        IN (ActiveIn(Stored, res.room, now) = {} /\ future # {}) =>
              /\ res.nextEvent # Null
              /\ \E k \in future :
                    /\ Stored[k] = Val(res.nextEvent)
                    /\ \A j \in future : Stored[k].startTime <= Stored[j].startTime

\* the earlier of two future events comes second in the store and is returned
C2_Witness ==
    /\ Answered(1)
    /\ LET res == Response(1)
           now == res.currentTime.iso
       IN /\ ActiveIn(Stored, res.room, now) = {}
          /\ FutureTodayIn(Stored, res.room, now) = {1, 2}
          /\ Stored[2].startTime < Stored[1].startTime
          /\ res.nextEvent = Some(Stored[2])

\* C3: whenever the response's `event` is non-null, its
\* `nextEvent` is null.
C3_CurrentExcludesNext ==
    Answered(1) => (Response(1).event # Null => Response(1).nextEvent = Null)

\* C4: a request never fails in the selection, and when no event that starts
\* on now's calendar day has the room in its location, the selection yields
\* no current and no next event and the 200 body carries event = null,
\* nextEvent = null and the "No upcoming events" message.
C4_NoMatchIsNormal ==
    [][/\ (req[1].pc = "idle" /\ req'[1].pc # "idle") =>
             /\ req'[1].pc = "render"
             /\ NoEventToday(Stored, req'[1].room, req'[1].timeNow) =>
                   (req'[1].currentEvent = Null /\ req'[1].nextEvent = Null)
       /\ (/\ req[1].pc = "render" /\ req'[1].pc = "done"
           /\ req'[1].sent[1].status = 200
           /\ NoEventToday(Stored, req[1].room, req[1].timeNow)) =>
             /\ req'[1].sent[1].event = Null
             /\ req'[1].sent[1].nextEvent = Null
             /\ req'[1].sent[1].nextEventMessage =
                    Some([text |-> "No upcoming events for this room"])
      ]_vars

\* the store holds events, none of them for the room today, and the 200
\* body reports neither a current nor a next event
C4_Witness ==
    /\ Answered(1)
    /\ Len(Stored) = 2
    /\ \E k \in DOMAIN Stored :
          /\ WellFormed(Stored[k]) /\ InRoom(Stored[k], Response(1).room)
          /\ Stored[k].startTime > Response(1).currentTime.iso
    /\ NoEventToday(Stored, Response(1).room, Response(1).currentTime.iso)
    /\ Response(1).event = Null
    /\ Response(1).nextEvent = Null

(* ======================================================================= *)
(*                 properties of the cache and of the handler              *)
(* ======================================================================= *)
\* slot i runs the synchronous part of the handler in this step
Handles(i) == req[i].pc = "idle" /\ req'[i].pc # "idle"

\* slot i sends a 500 body in this step
Fails(i) ==
    /\ req[i].pc # "done" /\ req'[i].pc = "done"
    /\ req'[i].sent[1].status = 500

StaleCache ==
    eventsCache = Null \/ cacheTimestamp = Null \/ file.mtime > Val(cacheTimestamp)

\* C5: whenever a request checks the cache, what loadEventsCache hands it is
\* what a direct read-and-parse of the store file would give at that moment:
\* the file's event array when it holds one, and nothing otherwise.
C5_CacheCoherent ==
    [][\A i \in Slots :
          Handles(i) =>
             LET direct == DirectRead(file) IN
             IF direct.ok /\ direct.value # Null
             THEN req'[i].pc = "render" /\ req'[i].allEvents = direct.value
             ELSE req'[i].pc = "done"
      ]_vars

\* one request holds an older snapshot, and another was handed the content
\* of the file written since, whose modification time is the lowest there is
C5_Witness ==
    \E i, j \in Slots :
        /\ req[i].pc = "render" /\ req[j].pc = "render"
        /\ req[i].allEvents # req[j].allEvents
        /\ file.exists
        /\ \A m \in MTimes : file.mtime <= m
        /\ DirectRead(file).ok
        /\ req[j].allEvents = DirectRead(file).value
        /\ cacheTimestamp = Some(file.mtime)

\* C6: with cacheTimestamp cleared, the next loadEventsCache call on an
\* existing file reads the file, and when it parses the cache holds the
\* file's content and modification time afterwards.
C6_ReloadAfterInvalidate ==
    [][\A i \in Slots :
          (Handles(i) /\ file.exists /\ cacheTimestamp = Null) =>
             /\ req'[i].pc = "render" => req'[i].read
             /\ JSONParse(file.content).ok =>
                   /\ eventsCache' = JSONParse(file.content).value
                   /\ cacheTimestamp' = Some(file.mtime)
      ]_vars

\* after a successful ingestion a request has re-read a file whose
\* modification time is the lowest there is, while another request still
\* holds the snapshot loaded before
C6_Witness ==
    \E i, j \in Slots :
        /\ job.pc = "idle" /\ job.outcome = "saved"
        /\ req[i].pc = "render" /\ req[i].read
        /\ req[j].pc = "render" /\ req[j].read
        /\ req[i].allEvents # req[j].allEvents
        /\ eventsCache = req[j].allEvents
        /\ file.exists
        /\ \A m \in MTimes : file.mtime <= m

\* C7: a reload of a file that does not parse ends the request with a 500
\* and leaves eventsCache and cacheTimestamp as they were; a reload of a file
\* that parses replaces both.
C7_ReloadAllOrNothing ==
    [][\A i \in Slots :
          (Handles(i) /\ file.exists /\ StaleCache) =>
             IF JSONParse(file.content).ok
             THEN /\ eventsCache' = JSONParse(file.content).value
                  /\ cacheTimestamp' = Some(file.mtime)
             ELSE /\ req'[i].pc = "done"
                  /\ req'[i].sent[1].status = 500
                  /\ eventsCache' = eventsCache
                  /\ cacheTimestamp' = cacheTimestamp
      ]_vars

\* a request has failed on a damaged file that is newer than the snapshot,
\* and the snapshot and its timestamp are still in place
C7_Witness ==
    \E i \in Slots :
        /\ Responded(i)
        /\ Response(i) = ErrorResponse("Internal server error")
        /\ file.exists /\ ~JSONParse(file.content).ok
        /\ eventsCache # Null /\ cacheTimestamp # Null
        /\ file.mtime > Val(cacheTimestamp)

\* C8: a request that finds the store file missing gets a 500 and clears
\* the cache; with the cache cleared, the next request that finds a file
\* holding an event array reads it and is handed that array.
C8_MissingStoreRecovers ==
    [][\A i \in Slots :
          Handles(i) =>
             /\ ~file.exists =>
                   /\ req'[i].pc = "done"
                   /\ req'[i].sent[1].status = 500
                   /\ eventsCache' = Null
                   /\ cacheTimestamp' = Null
             /\ (/\ file.exists /\ eventsCache = Null /\ cacheTimestamp = Null
                 /\ DirectRead(file).ok /\ DirectRead(file).value # Null) =>
                   /\ req'[i].pc = "render"
                   /\ req'[i].read
                   /\ req'[i].allEvents = DirectRead(file).value
                   /\ eventsCache' = DirectRead(file).value
      ]_vars

\* one request got the 500 for the store it did not find; the cache has
\* been filled since from the file and another request got its 200
C8_Witness ==
    \E i, j \in Slots :
        /\ Responded(i)
        /\ Response(i) = ErrorResponse("Structured events data not found")
        /\ Answered(j)
        /\ file.exists
        /\ eventsCache # Null
        /\ eventsCache = DirectRead(file).value

\* C9: an ingestion run that ends in failure (feed fetch, model call, or an
\* answer that does not parse) leaves the store file, eventsCache and
\* cacheTimestamp unchanged.
C9_FailedIngestionChangesNothing ==
    [][(job.pc # "idle" /\ job'.pc = "idle" /\ job'.outcome # "saved") =>
          (file' = file /\ eventsCache' = eventsCache /\ cacheTimestamp' = cacheTimestamp)
      ]_vars

\* the last run failed while a loaded snapshot with
\* its timestamp is in place
C9_Witness ==
    /\ job.pc = "idle" /\ job.outcome = "failed"
    /\ file.exists
    /\ eventsCache # Null
    /\ cacheTimestamp = Some(file.mtime)

ResponseBodies(r) ==
    \/ /\ r.status = 200
       /\ DOMAIN r = {"status", "room", "currentTime", "event", "nextEvent",
                      "nextEventMessage", "imageBase64"}
    \/ /\ r.status = 500
       /\ DOMAIN r = {"status", "error"}

\* C10: a finished request has sent exactly one response, the 200 with the
\* full body or a 500 with an error body, and a request that ends in a 500
\* leaves the other requests and the ingestion job as they were.
C10_OneResponsePerRequest ==
    [][\A i \in Slots :
          /\ req'[i].pc = "done" =>
                (Len(req'[i].sent) = 1 /\ ResponseBodies(req'[i].sent[1]))
          /\ req'[i].pc # "done" => ("sent" \notin DOMAIN req'[i])
          /\ Fails(i) =>
                (job' = job /\ \A j \in Slots \ {i} : req'[j] = req[j])
      ]_vars

\* a request failed on the unparseable store, and after the next successful
\* ingestion another request has been answered with a 200
C10_Witness ==
    \E i, j \in Slots :
        /\ Responded(i)
        /\ Response(i) = ErrorResponse("Internal server error")
        /\ Answered(j)
        /\ job.pc = "idle" /\ job.outcome = "saved"

(* ======================================================================= *)
(*               the selection over malformed and tied events              *)
(* ======================================================================= *)
\* an event with the three fields the selection reads and a room in its
\* location, and the store without the events that are not of that kind
Complete(e) == WellFormed(e) /\ e.location # <<>>
Kept(store) == SelectSeq(store, Complete)

\* over a sequence of complete events: the events of the room on now's day,
\* the position of the first active one (past the end when there is none),
\* and the events the scan has passed when it stops there
TodayIn(s, room, now) ==
    {k \in DOMAIN s : InRoom(s[k], room) /\ OnDayOf(s[k].startTime, now)}
ScanStop(s, room, now) ==
    LET active == {k \in TodayIn(s, room, now) :
                      s[k].startTime <= now /\ now <= s[k].endTime}
    IN IF active = {} THEN Len(s) + 1 ELSE Least(active)
CurrentOf(s, room, now) ==
    IF ScanStop(s, room, now) > Len(s) THEN Null
    ELSE Some(s[ScanStop(s, room, now)])
NextOf(s, room, now) ==
    LET future == {k \in TodayIn(s, room, now) :
                      k < ScanStop(s, room, now) /\ s[k].startTime > now}
        earliest == {k \in future :
                        \A j \in future : s[k].startTime <= s[j].startTime}
    IN IF future = {} THEN Null ELSE Some(s[Least(earliest)])

\* C11: a store that holds events without startTime, endTime or location, or
\* with an empty location, never makes the selection fail, and the current
\* and next event of the request and of its 200 body are those the scan
\* yields on the store with these events taken out.
C11_MalformedEventsSkipped ==
    [][/\ Handles(1) =>
             /\ req'[1].pc = "render"
             /\ req'[1].currentEvent =
                    CurrentOf(Kept(Stored), req'[1].room, req'[1].timeNow)
             /\ req'[1].nextEvent =
                    NextOf(Kept(Stored), req'[1].room, req'[1].timeNow)
       /\ (/\ req[1].pc = "render" /\ req'[1].pc = "done"
           /\ req'[1].sent[1].status = 200) =>
             /\ req'[1].sent[1].event =
                    CurrentOf(Kept(Stored), req[1].room, req[1].timeNow)
             /\ req'[1].sent[1].nextEvent =
                    NextOf(Kept(Stored), req[1].room, req[1].timeNow)
      ]_vars

\* the store starts with an event that lacks a field or a room, and the 200
\* body reports the well-formed event that follows it
C11_Witness ==
    /\ Answered(1)
    /\ Len(Stored) = 2
    /\ ~Complete(Stored[1])
    /\ Complete(Stored[2])
    /\ \/ Response(1).event = Some(Stored[2])
       \/ Response(1).nextEvent = Some(Stored[2])

\* C14: in a 200 body nextEventMessage is null exactly when `event` is not
\* null; with neither a current nor a next event it is the "No upcoming
\* events for this room" text; with no current but a next event it names
\* that event: its title (or summary, or "No Title") and its start.
C14_MessageMatchesSelection ==
    Answered(1) =>
        LET res == Response(1)
            msg == res.nextEventMessage
        IN /\ (msg = Null) <=> (res.event # Null)
           /\ (res.event = Null /\ res.nextEvent = Null) =>
                 msg = Some([text |-> "No upcoming events for this room"])
           /\ (res.event = Null /\ res.nextEvent # Null) =>
                 /\ msg # Null
                 /\ Val(msg).text = "Next event"
                 /\ Val(msg).startsAt = [iso |-> Val(res.nextEvent).startTime]
                 /\ Val(msg).title =
                       (IF "title" \in DOMAIN Val(res.nextEvent)
                        THEN Val(res.nextEvent).title
                        ELSE IF "summary" \in DOMAIN Val(res.nextEvent)
                        THEN Val(res.nextEvent).summary
                        ELSE "No Title")

\* no current event, and the message names the titled event that comes next
C14_Witness ==
    /\ Answered(1)
    /\ Response(1).event = Null
    /\ Response(1).nextEvent # Null
    /\ "title" \in DOMAIN Val(Response(1).nextEvent)
    /\ Response(1).nextEventMessage # Null
    /\ Val(Response(1).nextEventMessage).title = Val(Response(1).nextEvent).title

\* C15: an event returned as `event` or `nextEvent` is an event of the
\* store with the room in its location and its startTime on now's calendar
\* day; `event` has startTime <= now <= endTime and `nextEvent` has
\* startTime > now.
C15_SelectionSound ==
    Answered(1) =>
        LET res == Response(1)
            now == res.currentTime.iso
            Sound(e) ==
                /\ \E k \in DOMAIN Stored : Stored[k] = e
                /\ WellFormed(e)
                /\ InRoom(e, res.room)
                /\ OnDayOf(e.startTime, now)
        IN /\ res.event # Null =>
                 /\ Sound(Val(res.event))
                 /\ Val(res.event).startTime <= now
                 /\ now <= Val(res.event).endTime
           /\ res.nextEvent # Null =>
                 /\ Sound(Val(res.nextEvent))
                 /\ Val(res.nextEvent).startTime > now

\* the store holds a later event of the room that starts on another day and
\* one that starts today, and the one of today is returned as next
C15_Witness ==
    /\ Answered(1)
    /\ Response(1).nextEvent # Null
    /\ \E k \in DOMAIN Stored :
          /\ WellFormed(Stored[k]) /\ InRoom(Stored[k], Response(1).room)
          /\ Stored[k].startTime > Response(1).currentTime.iso
          /\ ~OnDayOf(Stored[k].startTime, Response(1).currentTime.iso)
    /\ OnDayOf(Val(Response(1).nextEvent).startTime, Response(1).currentTime.iso)

\* C16: when several events of the room are active at now the first of them
\* in the store is returned as `event`, and among the events of the room
\* that start today at the same later instant as `nextEvent` the first in
\* the store is the one returned.
C16_FirstEncounteredWins ==
    Answered(1) =>
        LET res == Response(1)
            now == res.currentTime.iso
            active == ActiveIn(Stored, res.room, now)
            tied == IF res.nextEvent = Null THEN {}
                    ELSE {k \in FutureTodayIn(Stored, res.room, now) :
                             Stored[k].startTime = Val(res.nextEvent).startTime}
        IN /\ Cardinality(active) >= 2 => res.event = Some(Stored[Least(active)])
           /\ tied # {} => res.nextEvent = Some(Stored[Least(tied)])

(* ======================================================================= *)
(*                    reloads, invalidation and isolation                  *)
(* ======================================================================= *)
\* the ingestion job writes the store file in this step
Saves == job.pc = "generating" /\ job'.pc = "idle" /\ job'.outcome = "saved"

\* C12: a reload of a store file whose content is what the cache already
\* holds leaves eventsCache as it was and hands the request that same
\* sequence, and the request selects what every request in flight on the
\* previous load selected.
C12_ReloadIdempotent ==
    [][\A i \in Slots :
          (/\ Handles(i) /\ file.exists /\ StaleCache
           /\ eventsCache # Null
           /\ DirectRead(file).ok /\ DirectRead(file).value = eventsCache) =>
             /\ eventsCache' = eventsCache
             /\ req'[i].pc = "render"
             /\ req'[i].read
             /\ req'[i].allEvents = eventsCache
             /\ \A j \in Slots \ {i} :
                   (/\ req[j].pc = "render" /\ req[j].allEvents = eventsCache
                    /\ req[j].room = req'[i].room
                    /\ req[j].timeNow = req'[i].timeNow) =>
                      /\ req'[i].currentEvent = req[j].currentEvent
                      /\ req'[i].nextEvent = req[j].nextEvent
      ]_vars

\* two requests in flight have each read the store file, the second after
\* an ingestion that wrote the content again, and both hold the same events
C12_Witness ==
    \E i, j \in Slots :
        /\ i # j
        /\ req[i].pc = "render" /\ req[i].read
        /\ req[j].pc = "render" /\ req[j].read
        /\ req[i].allEvents = req[j].allEvents
        /\ Val(req[i].allEvents) # <<>>
        /\ eventsCache = req[i].allEvents
        /\ job.pc = "idle" /\ job.outcome = "saved"
        /\ file.exists /\ cacheTimestamp = Some(file.mtime)

\* C13: the step of parseICal that writes the store file clears
\* cacheTimestamp; every other step of the job leaves the file and
\* cacheTimestamp as they were; and a set cacheTimestamp is cleared only
\* by that step or by a request that finds the store file missing.
C13_InvalidatedOnSaveOnly ==
    [][/\ job' # job =>
             IF Saves
             THEN /\ file'.exists
                  /\ JSONParse(file'.content).ok
                  /\ cacheTimestamp' = Null
                  /\ eventsCache' = eventsCache
             ELSE /\ file' = file
                  /\ cacheTimestamp' = cacheTimestamp
                  /\ eventsCache' = eventsCache
       /\ (cacheTimestamp # Null /\ cacheTimestamp' = Null) =>
             \/ Saves
             \/ ~file.exists /\ \E i \in Slots : Handles(i)
      ]_vars

\* the job has written a file that differs from the loaded snapshot, and
\* the timestamp is cleared while the snapshot is still in place
C13_Witness ==
    /\ job.pc = "idle" /\ job.outcome = "saved"
    /\ file.exists
    /\ cacheTimestamp = Null
    /\ eventsCache # Null
    /\ DirectRead(file).ok
    /\ DirectRead(file).value # eventsCache

\* C17: a request that finds a snapshot, a set timestamp and a file no newer
\* than the timestamp is handed the snapshot without the file being read,
\* and eventsCache and cacheTimestamp stay as they were; a request reads an
\* existing file, or changes the cache over it, only when the snapshot is
\* missing, the timestamp is cleared or the file is newer.
C17_CacheHitUntouched ==
    [][\A i \in Slots :
          Handles(i) =>
             /\ (/\ file.exists /\ eventsCache # Null /\ cacheTimestamp # Null
                 /\ file.mtime <= Val(cacheTimestamp)) =>
                   /\ req'[i].pc = "render"
                   /\ ~req'[i].read
                   /\ req'[i].allEvents = eventsCache
                   /\ eventsCache' = eventsCache
                   /\ cacheTimestamp' = cacheTimestamp
             /\ (req'[i].pc = "render" /\ req'[i].read) => StaleCache
             /\ (/\ file.exists
                 /\ (eventsCache' # eventsCache \/ cacheTimestamp' # cacheTimestamp)) =>
                   StaleCache
      ]_vars

\* the store file was replaced with a modification time no newer than the
\* timestamp, and a request in flight holds the snapshot, not the file
C17_Witness ==
    \E i \in Slots :
        /\ req[i].pc = "render" /\ ~req[i].read
        /\ req[i].allEvents = eventsCache
        /\ file.exists /\ cacheTimestamp # Null
        /\ file.mtime <= Val(cacheTimestamp)
        /\ DirectRead(file).ok
        /\ DirectRead(file).value # eventsCache

\* the cache holds a snapshot no older than the store file
Fresh ==
    /\ file.exists
    /\ eventsCache # Null
    /\ cacheTimestamp # Null
    /\ file.mtime <= Val(cacheTimestamp)

C19_SnapshotIsolation ==
    [][\A i \in Slots :
          /\ (req[i].pc = "render" /\ req'[i].pc = "render") => req'[i] = req[i]
          /\ (/\ req[i].pc = "render" /\ req'[i].pc = "done"
              /\ req'[i].sent[1].status = 200) =>
                LET kept == Kept(Val(req[i].allEvents)) IN
                /\ req'[i].sent[1].event = req[i].currentEvent
                /\ req'[i].sent[1].nextEvent = req[i].nextEvent
                /\ req'[i].sent[1].event =
                       CurrentOf(kept, req[i].room, req[i].timeNow)
                /\ req'[i].sent[1].nextEvent =
                       NextOf(kept, req[i].room, req[i].timeNow)
      ]_vars

\* a request was answered with the current event of its snapshot while the
\* job has written another file, from which the other request was served
C19_Witness ==
    \E i, j \in Slots :
        /\ Answered(i)
        /\ Response(i).event # Null
        /\ job.pc = "idle" /\ job.outcome = "saved"
        /\ req[j].pc = "render" /\ req[j].read
        /\ req[j].currentEvent = Null
        /\ eventsCache = req[j].allEvents

\* C20: whenever cacheTimestamp is set, eventsCache holds a snapshot, and
\* while the store file is in place the timestamp is its modification time
\* and the snapshot its parsed content.
C20_TimestampHasSnapshot ==
    cacheTimestamp # Null =>
        /\ eventsCache # Null
        /\ file.exists =>
              /\ Val(cacheTimestamp) = file.mtime
              /\ DirectRead(file).ok
              /\ DirectRead(file).value = eventsCache

(* ======================================================================= *)
(*                      the cached and the uncached handler                *)
(* ======================================================================= *)
\* the value a client reads in the field `event` of a body of the uncached
\* handler: a field left out of the JSON body reads as no event
EventField(body) == IF "event" \in DOMAIN body THEN body.event ELSE Null

\* C21: for the store content, room and now of a request that the cached
\* handler answers with a 200, the uncached handler answers with a 200 whose
\* field `event` has the same value (a body without the field counting as
\* event = null).
C21_HandlersAgreeOnEvent ==
    Answered(1) =>
        LET res == Response(1)
            old == IndexPostData(file, res.room, res.currentTime.iso)
        IN /\ old.status = 200
           /\ EventField(old) = res.event

====
